---- MODULE Spec2Model ----
(***************************************************************************)
(* Vector search service of anchueh/ehcode.                                *)
(*                                                                         *)
(* The repository holds three versions of VectorSearchMainService and two  *)
(* versions of the renderer-side proxy VectorSearchService:                *)
(*                                                                         *)
(*   "settings"  src/unnamed/part_000: the Qdrant client is built lazily   *)
(*               from the settings bundle of the first search; many        *)
(*               collections per search.                                   *)
(*   "env"       vectorSearchMainService.ts lines 1-174: the Qdrant client *)
(*               is built in the constructor from the environment; many    *)
(*               collections per search.                                   *)
(*   "single"    vectorSearchMainService.ts lines 176-311: one collection  *)
(*               per search, with ensureCollectionExists reading the cache.*)
(*                                                                         *)
(* The variable `variant` says which of them runs; it never changes.       *)
(* Requests are JavaScript async calls on one event loop: an action is the *)
(* code that runs between two suspension points (the await of a network    *)
(* call), so requests interleave only at the three network calls.          *)
(***************************************************************************)
EXTENDS Integers, Sequences, FiniteSets, TLC

(***************************************************************************)
(* Bounds of the model.                                                    *)
(***************************************************************************)
NumReq == 2
MaxLen == 2
MaxDbChanges == 1

Req == 1..NumReq
Names == {"a", "b"}
Variants == {"settings", "env", "single"}

(***************************************************************************)
(* Program constants.                                                      *)
(***************************************************************************)
VECTOR_SIZE == 1536
DEFAULT_LIMIT == 5
\* 0.4 and 0.5, in hundredths
DEFAULT_SCORE_THRESHOLD == 40
OLD_DEFAULT_SCORE_THRESHOLD == 50
EMBEDDING_MODEL == "text-embedding-3-small"

(***************************************************************************)
(* Data.                                                                   *)
(***************************************************************************)
RECURSIVE SeqsUpTo(_, _)
SeqsUpTo(S, n) ==
    IF n = 0 THEN {<<>>}
    ELSE LET shorter == SeqsUpTo(S, n - 1)
         IN  shorter \cup {Append(s, x) : s \in {t \in shorter : Len(t) = n - 1}, x \in S}

NameLists == SeqsUpTo(Names, MaxLen)

\* settings.openAI and settings.globalSettings; present = FALSE is undefined
NoOpenAI == [present |-> FALSE, didFillInProviderSettings |-> FALSE, endpoint |-> "", apiKey |-> ""]
NoGlobalSettings == [present |-> FALSE, qdrantUrl |-> "", qdrantApiKey |-> ""]
OpenAISettings(fill, e, k) ==
    [present |-> TRUE, didFillInProviderSettings |-> fill, endpoint |-> e, apiKey |-> k]
GlobalSettings(u, k) == [present |-> TRUE, qdrantUrl |-> u, qdrantApiKey |-> k]

\* the states of voidSettingsService the model draws from
SettingsStates ==
    { [openAI |-> OpenAISettings(TRUE, "e1", "k1"), globalSettings |-> GlobalSettings("u1", "q1")],
      [openAI |-> OpenAISettings(TRUE, "e2", "k2"), globalSettings |-> GlobalSettings("u2", "q2")],
      [openAI |-> OpenAISettings(FALSE, "e1", ""), globalSettings |-> GlobalSettings("u1", "q1")],
      [openAI |-> OpenAISettings(TRUE, "e1", "k1"), globalSettings |-> GlobalSettings("", "q1")],
      [openAI |-> NoOpenAI, globalSettings |-> NoGlobalSettings] }

NoClient == [present |-> FALSE, url |-> "", apiKey |-> ""]
QdrantClient(u, k) == [present |-> TRUE, url |-> u, apiKey |-> k]
\* the client the constructors of "env" and "single" build from the environment
EnvClient == QdrantClient("env", "env")

NoArgs ==
    [query |-> 0, collectionNames |-> <<>>, limit |-> 0, score_threshold |-> 0,
     with_payload |-> FALSE,
     settings |-> [openAI |-> NoOpenAI, globalSettings |-> NoGlobalSettings]]
NoEmbedding == [len |-> 0, of |-> 0]
NoError == [kind |-> "", slot |-> 0]
NoListing == [status |-> "none", names |-> {}]
Err(k) == [kind |-> k, slot |-> 0]

\* every request sends its own query text; 0 is no text
Query(r) == r

(***************************************************************************)
(* The vector database: what a similarity search may answer.               *)
(***************************************************************************)
HitsOf(c) ==
    IF c = "a" THEN << [id |-> 1, score |-> 50], [id |-> 2, score |-> 45] >>
    ELSE << [id |-> 1, score |-> 90] >>

Min(x, y) == IF x <= y THEN x ELSE y

\* no hit, or the best `limit` hits of the collection
QdrantSearch(c, limit) ==
    { <<>>, SubSeq(HitsOf(c), 1, Min(limit, Len(HitsOf(c)))) }

VARIABLES
    variant,        \* which version of the service runs
    db,             \* the collections that exist in the vector database
    dbChanges,      \* how many times db has changed
    state,          \* voidSettingsService.state, read by the proxy at call time
    client,         \* this.client
    collections,    \* this.collections, the cache of collection names
    initPc,         \* initializeCollections: "skipped", or "pending" while its
                    \* listing is out, then "ok" or "failed"
    onSearchResult, \* the events fired on _onSearchResult, in order
    pc,             \* per request: idle, validating, embedding, searching, aggregated, failed
    args,           \* per request: the arguments of channel.call('search', args)
    listing,        \* per request: what client.getCollections() answered
    existingCollections,
    embedding,      \* per request: the vector the provider answered
    slots,          \* per request: searchPromises, one entry per confirmed name
    completed,      \* per request: the slots in the order their calls ended
    response,       \* per request: flatResults, returned to the caller
    error,          \* per request: the error thrown to the caller
    listCalls,      \* per request: client.getCollections() calls issued
    embedCalls,     \* per request: openai.embeddings.create() calls issued
    searchCalls     \* per request: client.search() calls issued

vars ==
    << variant, db, dbChanges, state, client, collections, initPc, onSearchResult,
       pc, args, listing, existingCollections, embedding, slots, completed, response,
       error, listCalls, embedCalls, searchCalls >>

envVars == << db, dbChanges, state >>


(***************************************************************************)
(* VectorSearchService.search: the proxy builds the arguments of           *)
(* channel.call('search', ...) from its parameters and the live settings.  *)
(***************************************************************************)
\* what a caller may pass as collectionNames: one name or an array of names
CollectionInputs ==
    { [isArray |-> FALSE, name |-> n, names |-> <<>>] : n \in Names }
        \cup { [isArray |-> TRUE, name |-> "", names |-> l] : l \in NameLists }

\* what caller r passes as limit: 0 stands for an omitted argument, so the
\* first request takes the default and the later ones pass 1, 2, ...
LimitInputs(r) == {r - 1}

\* Array.isArray(collectionNames) ? collectionNames : [collectionNames]
ToArray(c) == IF c.isArray THEN c.names ELSE << c.name >>

\* limit = this.DEFAULT_LIMIT
LimitOrDefault(limit) == IF limit = 0 THEN DEFAULT_LIMIT ELSE limit

ProxyArgs(st, query, c, limit) ==
    [query |-> query,
     collectionNames |-> ToArray(c),
     limit |-> LimitOrDefault(limit),
     score_threshold |-> DEFAULT_SCORE_THRESHOLD,
     with_payload |-> TRUE,
     settings |-> [openAI |-> st.openAI, globalSettings |-> st.globalSettings]]

\* the older proxy: one collectionName, settings = settingsOfProvider
OldProxyArgs(st, query, c, limit) ==
    [query |-> query,
     collectionNames |-> << c.name >>,
     limit |-> LimitOrDefault(limit),
     score_threshold |-> OLD_DEFAULT_SCORE_THRESHOLD,
     with_payload |-> TRUE,
     settings |-> [openAI |-> st.openAI, globalSettings |-> NoGlobalSettings]]

(***************************************************************************)
(* VectorSearchMainService: the pure parts of call, getEmbedding and       *)
(* ensureCollectionsExist.                                                 *)
(***************************************************************************)
\* !settings?.openAI?._didFillInProviderSettings
OpenAINotConfigured(settings) ==
    ~ (settings.openAI.present /\ settings.openAI.didFillInProviderSettings)

\* !qdrantUrl || !qdrantApiKey
QdrantConfigMissing(gs) == gs.qdrantUrl = "" \/ gs.qdrantApiKey = ""

\* "settings": the checks of call before its first await; "" when they pass
CallPrecondition(v, settings) ==
    IF v # "settings" THEN ""
    ELSE IF OpenAINotConfigured(settings) THEN "ConfigurationError"
    ELSE IF ~ settings.globalSettings.present THEN "TypeError"
    ELSE IF QdrantConfigMissing(settings.globalSettings) THEN "ConfigurationError"
    ELSE ""

\* "env", "single": the check getEmbedding makes before it calls the provider
GetEmbeddingPrecondition(v, settings) ==
    IF v = "settings" THEN ""
    ELSE IF OpenAINotConfigured(settings) THEN "ConfigurationError"
    ELSE ""

\* if (!this.client) { this.client = new QdrantClient({url, apiKey}) }
ClientFor(v, cl, settings) ==
    IF v = "settings" /\ ~ cl.present
    THEN QdrantClient(settings.globalSettings.qdrantUrl, settings.globalSettings.qdrantApiKey)
    ELSE cl

\* "single": ensureCollectionExists answers from the cache without a listing
AnsweredFromCache(v, names, cache) == v = "single" /\ names[1] \in cache

\* mutant: one listing for every requested name
ListingCallsPerName(cl, collectionNames) == [i \in 1..Len(collectionNames) |-> cl]

\* ensureCollectionsExist lists the collections once, whatever the names.
\* Its guard `if (!this.client) throw` never fires: call has built the client
\* before it validates, and nothing clears it.
ListingCalls(cl, collectionNames) == << cl >>

\* mutant: the empty result is never noticed
NoneConfirmedNever(existing) == Len(existing) < 0

\* existingCollections.length === 0
NoneConfirmed(existing) == Len(existing) = 0

\* mutant: a name is confirmed once, however often it is requested
EnsureCollectionsExistOnce(collectionNames, availableCollections) ==
    SelectSeq([i \in 1..Len(collectionNames) |->
                  IF \E j \in 1..(i - 1) : collectionNames[j] = collectionNames[i]
                  THEN "" ELSE collectionNames[i]],
              LAMBDA name : name \in availableCollections)

\* the loop of ensureCollectionsExist over the listing's names
EnsureCollectionsExist(collectionNames, availableCollections) ==
    SelectSeq(collectionNames, LAMBDA name : name \in availableCollections)

SeqRange(s) == { s[i] : i \in 1..Len(s) }

\* mutant: the cache is overwritten with the names just confirmed
CacheAfterReplace(cache, existing) == SeqRange(existing)

\* this.collections.add(name) for every confirmed name
CacheAfter(cache, existing) == cache \cup SeqRange(existing)

\* openai.embeddings.create({model, input}) on new OpenAI({baseURL, apiKey})
EmbeddingRequest(settings, text) ==
    [model |-> EMBEDDING_MODEL, input |-> text,
     baseURL |-> settings.openAI.endpoint, apiKey |-> settings.openAI.apiKey]

\* mutant: only a vector that is too long is refused
WrongSizeOnlyLonger(vec) == vec.len > VECTOR_SIZE

\* embedding.length !== this.VECTOR_SIZE
WrongSize(vec) == vec.len # VECTOR_SIZE

\* mutant: the search is sent with the default limit, not the request's
SearchRequestDefaultLimit(cl, collectionName, vec, params) ==
    [client |-> cl, collection |-> collectionName, vector |-> vec,
     limit |-> DEFAULT_LIMIT, score_threshold |-> params.score_threshold,
     with_payload |-> params.with_payload]

\* this.client.search(collectionName, {vector, limit, score_threshold, with_payload})
SearchRequest(cl, collectionName, vec, params) ==
    [client |-> cl, collection |-> collectionName, vector |-> vec,
     limit |-> params.limit, score_threshold |-> params.score_threshold,
     with_payload |-> params.with_payload]

\* existingCollections.map(async collectionName => ...): the calls it issues
\* (the guard `if (!this.client) throw` of each of them never fires either)
FanOut(cl, existing, vec, params) ==
    [i \in 1..Len(existing) |-> SearchRequest(cl, existing[i], vec, params)]

\* mutant: every result is tagged with the first confirmed name
AnnotateFirst(v, results, existing, i) ==
    IF v = "single" THEN results
    ELSE [k \in 1..Len(results) |->
            [id |-> results[k].id, score |-> results[k].score, collection |-> existing[1]]]

\* results.map(result => ({...result, collection: collectionName}));
\* "single" returns the results as they came
Annotate(v, results, existing, i) ==
    IF v = "single" THEN results
    ELSE [k \in 1..Len(results) |->
            [id |-> results[k].id, score |-> results[k].score, collection |-> existing[i]]]

\* allResults.flat(), allResults in the order of searchPromises
RECURSIVE Flat(_)
Flat(allResults) ==
    IF allResults = <<>> THEN <<>>
    ELSE Head(allResults) \o Flat(Tail(allResults))

\* mutant: the results are gathered in the order the calls were answered
AllResultsAsCompleted(ss, order) == [k \in 1..Len(ss) |-> ss[order[k]].results]

\* mutant: the request resolves with the first answer, as Promise.any would
AllOkAny(ss) == \E i \in 1..Len(ss) : ss[i].status = "ok"

\* await Promise.all(searchPromises): the results in the order of the
\* promises, whatever the order in which they were fulfilled
AllResults(ss, order) == [i \in 1..Len(ss) |-> ss[i].results]
AllOk(ss) == \A i \in 1..Len(ss) : ss[i].status = "ok"
PendingSlot == [status |-> "pending", results |-> <<>>]

(***************************************************************************)
(* Initial state: the service has been constructed.                        *)
(***************************************************************************)
Init ==
    /\ variant \in Variants
    /\ db \in SUBSET Names
    /\ dbChanges = 0
    /\ state \in SettingsStates
    \* "settings" has no client yet, so initializeCollections does nothing
    /\ client = IF variant = "settings" THEN NoClient ELSE EnvClient
    /\ initPc = IF variant = "settings" THEN "skipped" ELSE "pending"
    /\ onSearchResult = <<>>
    /\ collections = {}
    /\ pc = [r \in Req |-> "idle"]
    /\ args = [r \in Req |-> NoArgs]
    /\ listing = [r \in Req |-> NoListing]
    /\ existingCollections = [r \in Req |-> <<>>]
    /\ embedding = [r \in Req |-> NoEmbedding]
    /\ slots = [r \in Req |-> <<>>]
    /\ completed = [r \in Req |-> <<>>]
    /\ response = [r \in Req |-> <<>>]
    /\ error = [r \in Req |-> NoError]
    /\ listCalls = [r \in Req |-> <<>>]
    /\ embedCalls = [r \in Req |-> <<>>]
    /\ searchCalls = [r \in Req |-> <<>>]


(***************************************************************************)
(* Steps of call(_, 'search', args).                                       *)
(***************************************************************************)
\* throw error: the request ends with the error
Fail(r, e) ==
    /\ pc' = [pc EXCEPT ![r] = "failed"]
    /\ error' = [error EXCEPT ![r] = e]

\* getEmbedding up to its await: the provider check of "env" and "single",
\* then openai.embeddings.create
BeginEmbedding(r, a) ==
    IF GetEmbeddingPrecondition(variant, a.settings) # ""
    THEN /\ Fail(r, Err(GetEmbeddingPrecondition(variant, a.settings)))
         /\ UNCHANGED embedCalls
    ELSE /\ pc' = [pc EXCEPT ![r] = "embedding"]
         /\ embedCalls' =
                [embedCalls EXCEPT ![r] = Append(@, EmbeddingRequest(a.settings, a.query))]
         /\ UNCHANGED error

\* The proxy's search and call up to its first await: the configuration
\* checks, the lazy client, and the listing call of the validation.
SearchWith(r, a) ==
    /\ pc[r] = "idle"
    /\ args' = [args EXCEPT ![r] = a]
    /\ IF CallPrecondition(variant, a.settings) # ""
       THEN /\ Fail(r, Err(CallPrecondition(variant, a.settings)))
            /\ UNCHANGED << client, listCalls, embedCalls, existingCollections >>
       ELSE /\ client' = ClientFor(variant, client, a.settings)
            /\ IF AnsweredFromCache(variant, a.collectionNames, collections)
               THEN /\ existingCollections' =
                          [existingCollections EXCEPT ![r] = a.collectionNames]
                    /\ BeginEmbedding(r, a)
                    /\ UNCHANGED listCalls
               ELSE /\ pc' = [pc EXCEPT ![r] = "validating"]
                    /\ listCalls' =
                          [listCalls EXCEPT ![r] = @ \o ListingCalls(client', a.collectionNames)]
                    /\ UNCHANGED << error, embedCalls, existingCollections >>
    /\ UNCHANGED << variant, onSearchResult, envVars, collections, initPc, listing, embedding, slots,
                    completed, response, searchCalls >>

Search(r) ==
    \E c \in CollectionInputs, limit \in LimitInputs(r) :
        IF variant = "single"
        THEN /\ ~ c.isArray
             /\ SearchWith(r, OldProxyArgs(state, Query(r), c, limit))
        ELSE SearchWith(r, ProxyArgs(state, Query(r), c, limit))

\* client.getCollections() answers: the rest of ensureCollectionsExist, the
\* check of its result, and getEmbedding up to its await
ListOk(r) ==
    /\ pc[r] = "validating"
    /\ listing' = [listing EXCEPT ![r] = [status |-> "ok", names |-> db]]
    /\ LET existing == EnsureCollectionsExist(args[r].collectionNames, db)
       IN  /\ existingCollections' = [existingCollections EXCEPT ![r] = existing]
           /\ collections' = CacheAfter(collections, existing)
           /\ IF NoneConfirmed(existing)
              THEN /\ Fail(r, Err("NoValidCollectionsError"))
                   /\ UNCHANGED embedCalls
              ELSE BeginEmbedding(r, args[r])
    /\ UNCHANGED << variant, onSearchResult, envVars, client, initPc, args, embedding, slots, completed,
                    response, listCalls, searchCalls >>

\* mutant: the listing's error is thrown on to the caller
ListFailRethrow(r) ==
    /\ pc[r] = "validating"
    /\ listing' = [listing EXCEPT ![r] = [status |-> "failed", names |-> {}]]
    /\ existingCollections' = [existingCollections EXCEPT ![r] = <<>>]
    /\ Fail(r, Err("UpstreamCallError"))
    /\ UNCHANGED << variant, onSearchResult, envVars, client, collections, initPc, args, embedding, slots,
                    completed, response, listCalls, embedCalls, searchCalls >>

\* mutant: a failed listing empties the cache
ListFailClearsCache(r) ==
    /\ pc[r] = "validating"
    /\ listing' = [listing EXCEPT ![r] = [status |-> "failed", names |-> {}]]
    /\ existingCollections' = [existingCollections EXCEPT ![r] = <<>>]
    /\ collections' = {}
    /\ Fail(r, Err("NoValidCollectionsError"))
    /\ UNCHANGED << variant, onSearchResult, envVars, client, initPc, args, embedding,
                    slots, completed, response, listCalls, embedCalls, searchCalls >>

\* client.getCollections() throws: caught and logged, nothing is confirmed
ListFail(r) ==
    /\ pc[r] = "validating"
    /\ listing' = [listing EXCEPT ![r] = [status |-> "failed", names |-> {}]]
    /\ existingCollections' = [existingCollections EXCEPT ![r] = <<>>]
    /\ Fail(r, Err("NoValidCollectionsError"))
    /\ UNCHANGED << variant, onSearchResult, envVars, client, collections, initPc, args, embedding, slots,
                    completed, response, listCalls, embedCalls, searchCalls >>

\* what the embedding provider may answer: a vector of some length
EmbeddingLengths == {VECTOR_SIZE, VECTOR_SIZE - 1}

\* openai.embeddings.create answers: the size check, then the fan-out, which
\* issues every search call before the first of them is awaited
EmbedOk(r) ==
    /\ pc[r] = "embedding"
    /\ \E n \in EmbeddingLengths :
        LET vec == [len |-> n, of |-> embedCalls[r][Len(embedCalls[r])].input]
        IN  /\ embedding' = [embedding EXCEPT ![r] = vec]
            /\ IF WrongSize(vec)
               THEN /\ Fail(r, Err("EmbeddingDimensionError"))
                    /\ UNCHANGED << slots, searchCalls >>
               ELSE /\ searchCalls' =
                          [searchCalls EXCEPT
                              ![r] = FanOut(client, existingCollections[r], vec, args[r])]
                    /\ slots' =
                          [slots EXCEPT
                              ![r] = [i \in 1..Len(existingCollections[r]) |-> PendingSlot]]
                    /\ pc' = [pc EXCEPT ![r] = "searching"]
                    /\ UNCHANGED error
    /\ UNCHANGED << variant, onSearchResult, envVars, client, collections, initPc, args, listing,
                    existingCollections, completed, response, listCalls, embedCalls >>

\* mutant: a failed embedding call is tried again
EmbedFailRetry(r) ==
    /\ pc[r] = "embedding"
    /\ embedCalls' =
          [embedCalls EXCEPT ![r] = Append(@, EmbeddingRequest(args[r].settings, args[r].query))]
    /\ UNCHANGED << variant, onSearchResult, envVars, client, collections, initPc, args,
                    listing, existingCollections, embedding, slots, completed, response,
                    pc, error, listCalls, searchCalls >>

\* openai.embeddings.create throws
EmbedFail(r) ==
    /\ pc[r] = "embedding"
    /\ Fail(r, Err("UpstreamCallError"))
    /\ UNCHANGED << variant, onSearchResult, envVars, client, collections, initPc, args, listing,
                    existingCollections, embedding, slots, completed, response,
                    listCalls, embedCalls, searchCalls >>

\* mutant: the aggregated results are also fired on _onSearchResult
SearchOkFires(r, i) ==
    /\ i \in 1..Len(slots[r])
    /\ slots[r][i].status = "pending"
    /\ completed' = [completed EXCEPT ![r] = Append(@, i)]
    /\ \E results \in QdrantSearch(searchCalls[r][i].collection, searchCalls[r][i].limit) :
        LET slot == [status |-> "ok",
                     results |-> Annotate(variant, results, existingCollections[r], i)]
            ss == [slots[r] EXCEPT ![i] = slot]
        IN  /\ slots' = [slots EXCEPT ![r] = ss]
            /\ IF pc[r] = "searching" /\ AllOk(ss)
               THEN /\ pc' = [pc EXCEPT ![r] = "aggregated"]
                    /\ response' =
                          [response EXCEPT ![r] = Flat(AllResults(ss, completed'[r]))]
                    /\ onSearchResult' = Append(onSearchResult, response'[r])
               ELSE UNCHANGED << pc, response, onSearchResult >>
    /\ UNCHANGED << variant, envVars, client, collections, initPc, args, listing,
                    existingCollections, embedding, error, listCalls, embedCalls,
                    searchCalls >>

\* client.search of slot i answers; Promise.all resolves with the last answer
SearchOk(r, i) ==
    /\ i \in 1..Len(slots[r])
    /\ slots[r][i].status = "pending"
    /\ completed' = [completed EXCEPT ![r] = Append(@, i)]
    /\ \E results \in QdrantSearch(searchCalls[r][i].collection, searchCalls[r][i].limit) :
        LET slot == [status |-> "ok",
                     results |-> Annotate(variant, results, existingCollections[r], i)]
            ss == [slots[r] EXCEPT ![i] = slot]
        IN  /\ slots' = [slots EXCEPT ![r] = ss]
            /\ IF pc[r] = "searching" /\ AllOk(ss)
               THEN /\ pc' = [pc EXCEPT ![r] = "aggregated"]
                    /\ response' =
                          [response EXCEPT ![r] = Flat(AllResults(ss, completed'[r]))]
               ELSE UNCHANGED << pc, response >>
    /\ UNCHANGED << variant, onSearchResult, envVars, client, collections, initPc, args, listing,
                    existingCollections, embedding, error, listCalls, embedCalls,
                    searchCalls >>

\* mutant: a failed search call is left out and the other results are
\* returned, as Promise.allSettled would allow
SearchFailPartial(r, i) ==
    /\ i \in 1..Len(slots[r])
    /\ slots[r][i].status = "pending"
    /\ completed' = [completed EXCEPT ![r] = Append(@, i)]
    /\ LET ss == [slots[r] EXCEPT ![i] = [status |-> "failed", results |-> <<>>]]
       IN  /\ slots' = [slots EXCEPT ![r] = ss]
           /\ IF pc[r] = "searching" /\ \A k \in 1..Len(ss) : ss[k].status # "pending"
              THEN /\ pc' = [pc EXCEPT ![r] = "aggregated"]
                   /\ response' =
                         [response EXCEPT ![r] = Flat(AllResults(ss, completed'[r]))]
              ELSE UNCHANGED << pc, response >>
    /\ UNCHANGED << variant, onSearchResult, envVars, client, collections, initPc, args,
                    listing, existingCollections, embedding, error, listCalls, embedCalls,
                    searchCalls >>

\* mutant: the error of a search call is swallowed and Promise.all never settles
SearchFailSwallowed(r, i) ==
    /\ i \in 1..Len(slots[r])
    /\ slots[r][i].status = "pending"
    /\ completed' = [completed EXCEPT ![r] = Append(@, i)]
    /\ slots' = [slots EXCEPT ![r][i] = [status |-> "failed", results |-> <<>>]]
    /\ UNCHANGED << variant, onSearchResult, envVars, client, collections, initPc, args,
                    listing, existingCollections, embedding, response, pc, error,
                    listCalls, embedCalls, searchCalls >>

\* client.search of slot i throws; Promise.all rejects with the first error
SearchFail(r, i) ==
    /\ i \in 1..Len(slots[r])
    /\ slots[r][i].status = "pending"
    /\ completed' = [completed EXCEPT ![r] = Append(@, i)]
    /\ slots' = [slots EXCEPT ![r][i] = [status |-> "failed", results |-> <<>>]]
    /\ IF pc[r] = "searching"
       THEN Fail(r, [kind |-> "UpstreamCallError", slot |-> i])
       ELSE UNCHANGED << pc, error >>
    /\ UNCHANGED << variant, onSearchResult, envVars, client, collections, initPc, args, listing,
                    existingCollections, embedding, response, listCalls, embedCalls,
                    searchCalls >>

\* mutant: an unknown command returns undefined without an error
CallUnknownIgnored(r) ==
    /\ pc[r] = "idle"
    /\ pc' = [pc EXCEPT ![r] = "aggregated"]
    /\ UNCHANGED << variant, onSearchResult, envVars, client, collections, initPc, args,
                    listing, existingCollections, embedding, slots, completed, response,
                    error, listCalls, embedCalls, searchCalls >>

\* call with a command other than 'search'
CallUnknown(r) ==
    /\ pc[r] = "idle"
    /\ Fail(r, Err("UnknownOperationError"))
    /\ UNCHANGED << variant, onSearchResult, envVars, client, collections, initPc, args, listing,
                    existingCollections, embedding, slots, completed, response,
                    listCalls, embedCalls, searchCalls >>

(***************************************************************************)
(* initializeCollections, started by the constructor.                      *)
(***************************************************************************)
\* getCollections() of initializeCollections answers: every name is cached
InitListOk ==
    /\ initPc = "pending"
    /\ collections' = collections \cup db
    /\ initPc' = "ok"
    /\ UNCHANGED << variant, onSearchResult, envVars, client, pc, args, listing, existingCollections,
                    embedding, slots, completed, response, error, listCalls, embedCalls,
                    searchCalls >>

\* mutant: the names are cached although the listing failed
InitListFailCaches ==
    /\ initPc = "pending"
    /\ collections' = collections \cup db
    /\ initPc' = "failed"
    /\ UNCHANGED << variant, onSearchResult, envVars, client, pc, args, listing,
                    existingCollections, embedding, slots, completed, response, error,
                    listCalls, embedCalls, searchCalls >>

\* getCollections() of initializeCollections throws: logged, nothing cached
InitListFail ==
    /\ initPc = "pending"
    /\ initPc' = "failed"
    /\ UNCHANGED << variant, onSearchResult, envVars, client, collections, pc, args, listing,
                    existingCollections, embedding, slots, completed, response, error,
                    listCalls, embedCalls, searchCalls >>

(***************************************************************************)
(* The environment: collections are created and dropped in the database.   *)
(***************************************************************************)
DbAdd ==
    /\ dbChanges < MaxDbChanges
    /\ \E n \in Names \ db : db' = db \cup {n}
    /\ dbChanges' = dbChanges + 1
    /\ UNCHANGED << variant, onSearchResult, state, client, collections, initPc, pc, args,
                    listing, existingCollections, embedding, slots, completed, response,
                    error, listCalls, embedCalls, searchCalls >>

DbRemove ==
    /\ dbChanges < MaxDbChanges
    /\ \E n \in db : db' = db \ {n}
    /\ dbChanges' = dbChanges + 1
    /\ UNCHANGED << variant, onSearchResult, state, client, collections, initPc, pc, args,
                    listing, existingCollections, embedding, slots, completed, response,
                    error, listCalls, embedCalls, searchCalls >>

Next ==
    \/ \E r \in Req : Search(r)
    \/ \E r \in Req : ListOk(r)
    \/ \E r \in Req : ListFail(r)
    \/ \E r \in Req : EmbedOk(r)
    \/ \E r \in Req : EmbedFail(r)
    \/ \E r \in Req, i \in 1..MaxLen : SearchOk(r, i)
    \/ \E r \in Req, i \in 1..MaxLen : SearchFail(r, i)
    \/ \E r \in Req : CallUnknown(r)
    \/ InitListOk
    \/ InitListFail

\* the service against a database whose collections do not change
Spec == Init /\ [][Next]_vars

NextDb ==
    \/ Next
    \/ DbAdd
    \/ DbRemove

\* the service against a database whose collections change while it runs
SpecDb == Init /\ [][NextDb]_vars

(***************************************************************************)
(* The environment: the user edits the settings while the service runs.    *)
(***************************************************************************)
ChangeSettings ==
    /\ \E s \in SettingsStates \ {state} : state' = s
    /\ UNCHANGED << variant, onSearchResult, db, dbChanges, client, collections, initPc,
                    pc, args, listing, existingCollections, embedding, slots, completed,
                    response, error, listCalls, embedCalls, searchCalls >>

\* the steps of the version that builds its client from the settings: its
\* constructor has no client, so initializeCollections issues no listing
NextSettings ==
    \/ \E r \in Req : Search(r)
    \/ \E r \in Req : ListOk(r)
    \/ \E r \in Req : ListFail(r)
    \/ \E r \in Req : EmbedOk(r)
    \/ \E r \in Req : EmbedFail(r)
    \/ \E r \in Req, i \in 1..MaxLen : SearchOk(r, i)
    \/ \E r \in Req, i \in 1..MaxLen : SearchFail(r, i)
    \/ \E r \in Req : CallUnknown(r)
    \/ ChangeSettings

InitSettings == Init /\ variant = "settings"

\* the version whose vector-store client is configured by the user, while
\* the settings change between and during its requests
SpecSettings == InitSettings /\ [][NextSettings]_vars

(***************************************************************************)
(* Every external call that was issued is answered or fails in the end.    *)
(***************************************************************************)
CallsReturn ==
    \A r \in Req :
        /\ WF_vars(ListOk(r) \/ ListFail(r))
        /\ WF_vars(EmbedOk(r) \/ EmbedFail(r))
        /\ \A i \in 1..MaxLen : WF_vars(SearchOk(r, i) \/ SearchFail(r, i))

SpecLive == Init /\ [][Next]_vars /\ CallsReturn

(***************************************************************************)
(* Properties.                                                             *)
(***************************************************************************)
NoValid == Err("NoValidCollectionsError")

\* the request has been given a vector of the right size, so it fans out
ReachedFanOut(r) == embedding[r] # NoEmbedding /\ embedding[r].len = VECTOR_SIZE

\* C1: a search whose validation confirmed none of the requested names has
\* failed with the 'no valid collections' error and has issued no embedding
\* call and no similarity search.
C1_NoneConfirmedFails ==
    \A r \in Req :
        (listing[r].status # "none" /\ Len(existingCollections[r]) = 0)
            => /\ pc[r] = "failed"
               /\ error[r] = NoValid
               /\ embedCalls[r] = <<>>
               /\ searchCalls[r] = <<>>

\* two names were requested, the listing answered, and neither was confirmed
C1_Witness ==
    \E r \in Req :
        /\ listing[r].status = "ok"
        /\ Len(args[r].collectionNames) = 2
        /\ existingCollections[r] = <<>>
        /\ pc[r] = "failed"

\* the settings of a search lack what this version of the service needs
ConfigIncomplete(v, settings) ==
    \/ OpenAINotConfigured(settings)
    \/ /\ v = "settings"
       /\ \/ ~ settings.globalSettings.present
          \/ QdrantConfigMissing(settings.globalSettings)

\* C2: a search whose settings lack the provider configuration (or, in the
\* version configured by the user, the vector-store URL or key) has failed
\* with a configuration error and has issued no listing, no embedding and no
\* similarity search.
C2_ConfigFailsFast ==
    \A r \in Req :
        (args[r] # NoArgs /\ ConfigIncomplete(variant, args[r].settings))
            => /\ pc[r] = "failed"
               /\ error[r] = Err("ConfigurationError")
               /\ listCalls[r] = <<>>
               /\ embedCalls[r] = <<>>
               /\ searchCalls[r] = <<>>

\* C3: a request whose provider answered a vector of another length than
\* VECTOR_SIZE has failed and has issued no similarity search.
C3_WrongLengthNoSearch ==
    \A r \in Req :
        (embedding[r] # NoEmbedding /\ embedding[r].len # VECTOR_SIZE)
            => /\ pc[r] = "failed"
               /\ error[r] = Err("EmbeddingDimensionError")
               /\ searchCalls[r] = <<>>
               /\ slots[r] = <<>>

\* two names were confirmed and the vector came back one element short
C3_Witness ==
    \E r \in Req :
        /\ embedding[r].len = VECTOR_SIZE - 1
        /\ Len(existingCollections[r]) = 2
        /\ pc[r] = "failed"

\* C4: a request that fans out over N confirmed entries has issued exactly
\* N similarity searches, the i-th for the i-th entry, each with the vector
\* the provider answered for the request's query and with the request's
\* limit, score threshold and payload flag.
C4_OneSearchPerEntry ==
    \A r \in Req :
        ReachedFanOut(r)
            => /\ Len(searchCalls[r]) = Len(existingCollections[r])
               /\ embedding[r].of = args[r].query
               /\ \A i \in 1..Len(searchCalls[r]) :
                    /\ searchCalls[r][i].collection = existingCollections[r][i]
                    /\ searchCalls[r][i].vector = embedding[r]
                    /\ searchCalls[r][i].limit = args[r].limit
                    /\ searchCalls[r][i].score_threshold = args[r].score_threshold
                    /\ searchCalls[r][i].with_payload = args[r].with_payload

\* the confirmed list names one collection twice, and two searches went out
C4_Witness ==
    \E r \in Req :
        /\ ReachedFanOut(r)
        /\ existingCollections[r] = << "a", "a" >>
        /\ Len(searchCalls[r]) = 2

\* how many results the first n slots hold
RECURSIVE ResultsBefore(_, _)
ResultsBefore(ss, n) ==
    IF n = 0 THEN 0 ELSE ResultsBefore(ss, n - 1) + Len(ss[n].results)

\* C5: in a successful response the results of slot i, in the order the
\* search call returned them, stand right after the results of the slots
\* before i, whatever the order in which the calls were answered.
C5_ResponseInConfirmedOrder ==
    \A r \in Req :
        pc[r] = "aggregated"
            => /\ Len(response[r]) = ResultsBefore(slots[r], Len(slots[r]))
               /\ \A i \in 1..Len(slots[r]) :
                    \A k \in 1..Len(slots[r][i].results) :
                        response[r][ResultsBefore(slots[r], i - 1) + k]
                            = slots[r][i].results[k]

\* the second call was answered first and returned the best score, yet the
\* response starts with the first collection's weaker results
C5_Witness ==
    \E r \in Req :
        /\ pc[r] = "aggregated"
        /\ existingCollections[r] = << "a", "b" >>
        /\ completed[r] = << 2, 1 >>
        /\ Len(response[r]) = 3
        /\ response[r][1].score < response[r][3].score
        /\ response[r][2].score < response[r][1].score

\* C6: in the versions that search many collections, every result is tagged
\* with the collection its search call was sent to, and the tags of a
\* response are names the request asked for and the validation confirmed.
C6_TagsAreConfirmedNames ==
    variant # "single" =>
        \A r \in Req :
            /\ \A i \in 1..Len(slots[r]) :
                 \A k \in 1..Len(slots[r][i].results) :
                    slots[r][i].results[k].collection = searchCalls[r][i].collection
            /\ pc[r] = "aggregated" =>
                 \A k \in 1..Len(response[r]) :
                    /\ response[r][k].collection \in SeqRange(existingCollections[r])
                    /\ response[r][k].collection \in SeqRange(args[r].collectionNames)
                    /\ response[r][k].collection \in listing[r].names

\* a response that holds results of two collections
C6_Witness ==
    /\ variant # "single"
    /\ \E r \in Req :
        /\ pc[r] = "aggregated"
        /\ \E k, l \in 1..Len(response[r]) :
            response[r][k].collection # response[r][l].collection

\* out is names without the entries that are not in avail, order and
\* repetitions kept
IsFilter(names, avail, out) ==
    LET kept == { i \in 1..Len(names) : names[i] \in avail }
    IN  /\ Len(out) = Cardinality(kept)
        /\ \A i \in kept : out[Cardinality({ j \in kept : j <= i })] = names[i]

\* C7: when the listing answers, the validation confirms exactly the
\* requested names that are in the listing, in the requested order and once
\* per occurrence; dropping a name is no error as long as one is confirmed.
C7_ValidateSubsequence ==
    \A r \in Req :
        listing[r].status = "ok"
            => /\ IsFilter(args[r].collectionNames, listing[r].names,
                           existingCollections[r])
               /\ existingCollections[r] # <<>> => error[r] # NoValid

\* the first requested name is missing, the second is confirmed, and the
\* request went on
C7_Witness ==
    \E r \in Req :
        /\ listing[r].status = "ok"
        /\ Len(args[r].collectionNames) = 2
        /\ args[r].collectionNames[1] \notin listing[r].names
        /\ existingCollections[r] = << args[r].collectionNames[2] >>
        /\ pc[r] \in {"embedding", "searching", "aggregated"}

\* C8: a validation that starts with every requested name in the cache
\* issues no listing call and confirms all the names.
C8_CachedNamesNeedNoListing ==
    [][\A r \in Req :
          ( /\ pc[r] = "idle"
            /\ pc'[r] # "idle"
            /\ args'[r] # NoArgs
            /\ CallPrecondition(variant, args'[r].settings) = ""
            /\ args'[r].collectionNames # <<>>
            /\ SeqRange(args'[r].collectionNames) \subseteq collections )
          => /\ listCalls'[r] = <<>>
             /\ existingCollections'[r] = args'[r].collectionNames]_vars

\* C9: a validation issues at most one listing call, and once the listing
\* has answered every confirmed name is in the cache.
C9_OneListingPerValidation ==
    \A r \in Req :
        /\ Len(listCalls[r]) <= 1
        /\ listing[r].status = "ok"
             => SeqRange(existingCollections[r]) \subseteq collections

\* the first search of a service whose cache was empty asked for two names:
\* one listing call confirmed both and both are cached
C9_Witness ==
    /\ variant = "settings"
    /\ \E r \in Req :
        /\ \A q \in Req \ {r} : pc[q] = "idle"
        /\ existingCollections[r] = << "a", "b" >>
        /\ Len(listCalls[r]) = 1
        /\ {"a", "b"} \subseteq collections

\* C10: when the listing call fails the validation confirms nothing and
\* leaves the cache as it was, and the request fails with the 'no valid
\* collections' error without an embedding call or a similarity search.
C10_ListingFailure ==
    [][\A r \in Req :
          /\ listing'[r].status = "failed"
               => /\ existingCollections'[r] = <<>>
                  /\ pc'[r] = "failed"
                  /\ error'[r] = NoValid
                  /\ embedCalls'[r] = <<>>
                  /\ searchCalls'[r] = <<>>
          /\ (listing[r].status = "none" /\ listing'[r].status = "failed")
               => collections' = collections]_vars

\* the listing failed although every requested name exists
C10_Witness ==
    \E r \in Req :
        /\ listing[r].status = "failed"
        /\ args[r].collectionNames # <<>>
        /\ SeqRange(args[r].collectionNames) \subseteq db
        /\ pc[r] = "failed"

\* the slot of request r whose search call was the first to fail
FirstFailed(r) ==
    LET failedAt == { k \in 1..Len(completed[r]) :
                        slots[r][completed[r][k]].status = "failed" }
        first == CHOOSE k \in failedAt : \A j \in failedAt : k <= j
    IN  completed[r][first]

\* C11: as soon as one of a request's search calls has failed, the request
\* has failed with the error of the first call that failed and carries no
\* results, whatever the other calls answered; and no failed request, failed
\* for whatever reason, carries results.
C11_OneFailureFailsAll ==
    \A r \in Req :
        /\ (\E i \in 1..Len(slots[r]) : slots[r][i].status = "failed")
              => /\ pc[r] = "failed"
                 /\ error[r] = [kind |-> "UpstreamCallError", slot |-> FirstFailed(r)]
                 /\ response[r] = <<>>
        /\ pc[r] = "failed" => response[r] = <<>>

\* a request failed by its second search call although the first one had
\* answered with hits
C11_Witness ==
    \E r \in Req :
        /\ pc[r] = "failed"
        /\ Len(slots[r]) = 2
        /\ slots[r][1].status = "ok" /\ slots[r][1].results # <<>>
        /\ slots[r][2].status = "failed"
        /\ response[r] = <<>>

\* request r called the channel with a command other than 'search'
UnknownCall(r) == pc[r] # "idle" /\ args[r] = NoArgs

\* C12: a call with a command other than 'search' is rejected with the
\* operation-not-found error and issues no listing, embedding or search call;
\* the step that makes the call changes neither the cache nor the client.
C12_UnknownOperation ==
    [][\A r \in Req :
          UnknownCall(r)' =>
              /\ pc'[r] = "failed"
              /\ error'[r] = Err("UnknownOperationError")
              /\ response'[r] = <<>>
              /\ listCalls'[r] = <<>> /\ embedCalls'[r] = <<>> /\ searchCalls'[r] = <<>>
              /\ ~ UnknownCall(r) => (collections' = collections /\ client' = client)]_vars

\* an unknown command was rejected while the cache held names and another
\* request was searching
C12_Witness ==
    \E r, q \in Req :
        /\ UnknownCall(r)
        /\ error[r] = Err("UnknownOperationError")
        /\ collections # {}
        /\ pc[q] = "searching"

\* the vector-store client the settings snapshot of request r describes
SnapshotClient(r) ==
    QdrantClient(args[r].settings.globalSettings.qdrantUrl,
                 args[r].settings.globalSettings.qdrantApiKey)

\* C13: every network call of a search uses the credentials and endpoints of
\* the settings snapshot taken when that search was called: the listing and
\* search calls go to the vector store of the snapshot, the embedding call to
\* the provider of the snapshot, and the snapshot is the live settings of the
\* moment of the call.
C13_CallsUseSnapshot ==
    [][\A r \in Req :
          /\ (pc[r] = "idle" /\ args'[r] # NoArgs)
                => /\ args'[r].settings.openAI = state.openAI
                   /\ args'[r].settings.globalSettings = state.globalSettings
          /\ \A i \in 1..Len(listCalls'[r]) : listCalls'[r][i] = SnapshotClient(r)'
          /\ \A i \in 1..Len(searchCalls'[r]) : searchCalls'[r][i].client = SnapshotClient(r)'
          /\ \A i \in 1..Len(embedCalls'[r]) :
                /\ embedCalls'[r][i].baseURL = args'[r].settings.openAI.endpoint
                /\ embedCalls'[r][i].apiKey = args'[r].settings.openAI.apiKey]_vars

\* C14: no step of any call fires an event on _onSearchResult, so whoever
\* subscribed through listen('onSearchResult') has received nothing, whether
\* requests returned results, failed, or are still running.
C14_NoEventFired == onSearchResult = <<>>

\* one request returned hits and another one failed, and no event was fired
C14_Witness ==
    \E r, q \in Req :
        /\ pc[r] = "aggregated" /\ response[r] # <<>>
        /\ pc[q] = "failed"
        /\ onSearchResult = <<>>

\* the phase changes a request may make; a request of "single" whose name is
\* cached is validated within the step that calls it
PhaseOrder ==
    { << "idle", "validating" >>, << "idle", "embedding" >>,
      << "validating", "embedding" >>, << "embedding", "searching" >>,
      << "searching", "aggregated" >> }
        \cup { << p, "failed" >> : p \in {"idle", "validating", "embedding", "searching"} }

Terminal(r) == pc[r] \in {"aggregated", "failed"}

\* C15: a request changes phase only forwards, validating, embedding,
\* searching, aggregated, or from a phase that is not terminal to failed; once
\* aggregated or failed it stays there and issues no further call; and it
\* never retries: at most one listing call, at most one embedding call, and
\* at most one search call per confirmed entry.
C15_PhasesAndNoRetry ==
    [][\A r \in Req :
          /\ pc'[r] # pc[r] => << pc[r], pc'[r] >> \in PhaseOrder
          /\ Terminal(r) =>
                /\ pc'[r] = pc[r]
                /\ listCalls'[r] = listCalls[r]
                /\ embedCalls'[r] = embedCalls[r]
                /\ searchCalls'[r] = searchCalls[r]
          /\ Len(listCalls'[r]) <= 1
          /\ Len(embedCalls'[r]) <= 1
          /\ Len(searchCalls'[r]) <= Len(existingCollections'[r])]_vars

\* one request went through every phase with one listing, one embedding and
\* two search calls, another failed while searching and then saw its other
\* search call answered
C15_Witness ==
    \E r, q \in Req :
        /\ pc[r] = "aggregated"
        /\ Len(listCalls[r]) = 1 /\ Len(embedCalls[r]) = 1 /\ Len(searchCalls[r]) = 2
        /\ pc[q] = "failed" /\ Len(slots[q]) = 2
        /\ completed[q] = << 1, 2 >>
        /\ slots[q][1].status = "failed" /\ slots[q][2].status = "ok"

\* request r has a search call that has neither answered nor failed
Outstanding(r) == \E i \in 1..Len(slots[r]) : slots[r][i].status = "pending"

\* C16, as claimed: a request that has returned, with results or with an
\* error, has no search call outstanding.
C16_NoReturnWhileOutstanding == \A r \in Req : Terminal(r) => ~ Outstanding(r)

\* C16, amended: a request returns results only when every one of its search
\* calls has answered; it returns an error at the first search call that
\* fails, so a request is never left searching with a failed call, and a
\* request that returned with a call outstanding returned the error of a call
\* that failed.
C16_ReturnsAtLastAnswerOrFirstFailure ==
    \A r \in Req :
        /\ pc[r] = "aggregated" => AllOk(slots[r])
        /\ pc[r] = "searching" =>
              /\ Outstanding(r)
              /\ \A i \in 1..Len(slots[r]) : slots[r][i].status # "failed"
        /\ (Terminal(r) /\ Outstanding(r)) =>
              /\ pc[r] = "failed"
              /\ error[r].kind = "UpstreamCallError"
              /\ slots[r][error[r].slot].status = "failed"

\* a request has failed on its first search call while its second one is
\* still outstanding
C16_Witness ==
    \E r \in Req :
        /\ pc[r] = "failed"
        /\ Len(slots[r]) = 2
        /\ slots[r][1].status = "failed"
        /\ slots[r][2].status = "pending"

\* request r has been through its validation
Validated(r) == listing[r].status # "none" \/ existingCollections[r] # <<>>

\* the names the requests have confirmed so far
ConfirmedNames == UNION { SeqRange(existingCollections[r]) : r \in Req }

\* C17: the cache changes only in the step that ends a validation's listing
\* or ends the listing of initializeCollections, never in a step of a request
\* that is embedding or searching. However the requests interleave, against
\* an unchanging database each request confirms what it would confirm alone
\* (its requested names that exist, in order), returns the results of its own
\* search calls, and the cache is the union of the confirmed names and of
\* what initializeCollections listed.
C17_CacheWritesAndSerialOutcome ==
    [][/\ collections' # collections =>
            \/ initPc = "pending" /\ initPc' = "ok"
            \/ \E r \in Req :
                  /\ pc[r] = "validating"
                  /\ listing'[r].status = "ok"
                  /\ collections' = collections \cup SeqRange(existingCollections'[r])
       /\ \A r \in Req :
            /\ (pc[r] \in {"embedding", "searching"} /\ pc'[r] # pc[r])
                  => collections' = collections
            /\ Validated(r)' =>
                  existingCollections'[r] =
                      IF listing'[r].status = "failed" THEN <<>>
                      ELSE SelectSeq(args'[r].collectionNames, LAMBDA n : n \in db')
            /\ pc'[r] = "aggregated" =>
                  response'[r] = Flat([i \in 1..Len(slots'[r]) |-> slots'[r][i].results])
       /\ collections' = ConfirmedNames' \cup (IF initPc' = "ok" THEN db' ELSE {})]_vars

\* two requests that were in flight together confirmed different names, and
\* the cache holds both although initializeCollections listed nothing
C17_Witness ==
    /\ initPc \in {"failed", "skipped"}
    /\ pc[1] = "searching" /\ pc[2] = "embedding"
    /\ existingCollections[1] = << "a" >>
    /\ existingCollections[2] = << "b" >>
    /\ collections = {"a", "b"}

\* C18: the registry follows the database: once the database has stopped
\* changing, a validation that ends with an answer confirms exactly the
\* requested names that exist then, so a removed collection is no longer
\* confirmed and an added one is. (The cache never loses a name, so a
\* validation that confirms a removed collection will be repeated by every
\* later validation of that name.)
C18_ValidationFollowsDatabase ==
    [][\A r \in Req :
          (/\ dbChanges = MaxDbChanges
           /\ ~ Validated(r)
           /\ Validated(r)'
           /\ listing'[r].status # "failed")
              => existingCollections'[r] =
                     SelectSeq(args'[r].collectionNames, LAMBDA n : n \in db)]_vars

\* C19: when the listing of initializeCollections fails, or is skipped for
\* want of a client, nothing else happens: the failure reaches no request and
\* leaves the cache and the client as they were. The cache then holds only
\* what validations confirmed (it started empty), and every validation whose
\* listing is answered confirms exactly its requested names that are in the
\* listing and has them in the cache.
C19_StartupFailureSwallowed ==
    [][/\ (initPc = "pending" /\ initPc' = "failed")
            => /\ collections' = collections
               /\ client' = client
               /\ pc' = pc /\ error' = error /\ response' = response
       /\ initPc' \in {"failed", "skipped"}
            => /\ collections' = ConfirmedNames'
               /\ \A r \in Req :
                     listing'[r].status = "ok"
                         => /\ existingCollections'[r] =
                                  SelectSeq(args'[r].collectionNames,
                                            LAMBDA n : n \in listing'[r].names)
                            /\ SeqRange(existingCollections'[r]) \subseteq collections']_vars

\* the startup listing failed; a later search of "b" and "a" found only "a"
\* listed, confirmed it and cached it
C19_Witness ==
    \E r \in Req :
        /\ initPc = "failed"
        /\ listing[r] = [status |-> "ok", names |-> {"a"}]
        /\ args[r].collectionNames = << "b", "a" >>
        /\ existingCollections[r] = << "a" >>
        /\ collections = {"a"}

\* C20: if every external call that is issued is answered or fails in the
\* end, every request that was called ends aggregated or failed.
C20_RequestsTerminate == \A r \in Req : (pc[r] # "idle") ~> Terminal(r)

\* a request has ended with results after all three kinds of external call
C20_Witness ==
    \E r \in Req :
        /\ pc[r] = "aggregated"
        /\ Len(listCalls[r]) = 1 /\ Len(embedCalls[r]) = 1
        /\ Len(completed[r]) = 2

\* C21: the cache starts empty, every name a step adds to it is in the
\* answer of a listing that succeeds in that very step, the listing of
\* initializeCollections or the listing of a validation, and no step takes a
\* name out of it, whether a request fails, a listing fails or a collection
\* is dropped from the database.
C21_CacheListedAndGrowing ==
    [][/\ collections \subseteq collections'
       /\ collections' # collections =>
            \/ /\ initPc = "pending" /\ initPc' = "ok"
               /\ collections' \ collections \subseteq db
            \/ \E r \in Req :
                  /\ listing[r].status = "none"
                  /\ listing'[r].status = "ok"
                  /\ collections' \ collections \subseteq listing'[r].names]_vars

\* the cache still holds a name that was listed and has since been dropped
\* from the database, after a listing failed and its request failed
C21_Witness ==
    \E r \in Req :
        /\ collections = {"a"}
        /\ "a" \notin db
        /\ listing[r].status = "failed"
        /\ pc[r] = "failed"

====
